---------------------------- MODULE Spec2Model ----------------------------
(***************************************************************************)
(* Project cost tracker (backend/server.py): the EVM calculator            *)
(* calculate_enhanced_evm_metrics / calculate_evm_metrics and the          *)
(* obligation, cost-entry and project routes over the MongoDB collections. *)
(*                                                                         *)
(* Money and ratios are Python floats in the source.  They are modelled as *)
(* exact rationals [n |-> numerator, d |-> denominator > 0] in lowest      *)
(* terms, so that 0.4, 0.6, 0.8, 1.1, 0.95, 1.05 and every quotient are    *)
(* represented without rounding.                                           *)
(***************************************************************************)
EXTENDS Integers, Sequences, FiniteSets, TLC

VARIABLES
    projects,         \* db.projects: sequence of project documents
    phases,           \* db.phases: sequence of phase documents
    cost_categories,  \* db.cost_categories: sequence of category documents
    cost_entries,     \* db.cost_entries: sequence of cost entry documents
    obligations,      \* db.obligations: sequence of obligation documents
    issued,           \* the ids (uuid4) issued so far, per collection
    client,           \* the caller's record of its obligations, by id: the body it
                      \* posted (confidence_level included) and the status last acknowledged
    response,         \* the response of the last route called
    args,             \* the arguments of a direct call of the EVM calculator
    evm,              \* the EVMCalculation such a call returned (or the error it raised)
    tasks             \* the requests whose handlers run step by step: for each its
                      \* handler, its local variables, where it stands, and its status

vars == <<projects, phases, cost_categories, cost_entries, obligations, issued,
          client, response, args, evm, tasks>>

store == <<projects, phases, cost_categories, cost_entries, obligations>>

-----------------------------------------------------------------------------
(* Bounds of the model *)

MaxBudgetTens == 2      \* total_budget ranges over 0, 10, .., 10 * MaxBudgetTens
MaxSpentFives == 4      \* total_spent ranges over 0, 5, .., 5 * MaxSpentFives
MaxObligationAmount == 3 \* total_obligations ranges over 0 .. MaxObligationAmount
MaxManualEtc == 4       \* manual_etc ranges over None, 0 .. MaxManualEtc
MaxDuration == 4        \* the schedule lasts MaxDuration days; today ranges around it
MaxObligations == 2     \* obligations created in a run

-----------------------------------------------------------------------------
(* Float arithmetic, as exact rationals *)

Abs(x) == IF x < 0 THEN -x ELSE x

RECURSIVE GCD(_, _)
GCD(a, b) == IF b = 0 THEN a ELSE GCD(b, a % b)

\* n / d in lowest terms with a positive denominator (d # 0)
Frac(n, d) ==
    LET g == GCD(Abs(n), Abs(d))
        s == IF d < 0 THEN -1 ELSE 1
    IN  [n |-> (s * n) \div g, d |-> (s * d) \div g]

R(x) == [n |-> x, d |-> 1]
Zero == R(0)
One == R(1)

\* products are taken after cancelling common factors, to keep the integers small
Add(a, b) ==
    LET g == GCD(a.d, b.d)
    IN  Frac(a.n * (b.d \div g) + b.n * (a.d \div g), (a.d \div g) * b.d)
Sub(a, b) == Add(a, [n |-> 0 - b.n, d |-> b.d])
Mul(a, b) ==
    LET g1 == GCD(Abs(a.n), b.d)
        g2 == GCD(Abs(b.n), a.d)
    IN  Frac((a.n \div g1) * (b.n \div g2), (a.d \div g2) * (b.d \div g1))
\* a / b; Python raises ZeroDivisionError when b = 0, callers test for it first
Div(a, b) == Mul(a, Frac(b.d, b.n))

Lt(a, b) ==
    LET g == GCD(a.d, b.d)
    IN  a.n * (b.d \div g) < b.n * (a.d \div g)
Le(a, b) == ~Lt(b, a)
Gt(a, b) == Lt(b, a)
Ge(a, b) == Le(b, a)
Min(a, b) == IF Lt(b, a) THEN b ELSE a
Max(a, b) == IF Gt(b, a) THEN b ELSE a

RECURSIVE SumSeq(_)
\* sum(...) over a list of numbers
SumSeq(s) == IF s = <<>> THEN 0 ELSE Head(s) + SumSeq(Tail(s))

-----------------------------------------------------------------------------
(* calculate_enhanced_evm_metrics, server.py 221-370 *)

\* Optional[...] arguments: <<>> is None, <<v>> is the value v
None == <<>>
Some(v) == <<v>>

\* project_progress when the caller gives none: elapsed / duration clamped to [0, 1]
\* a variant without the clamp to [0, 1]
ProjectProgress_unclamped(project, project_progress, today) ==
    IF project_progress # None
    THEN project_progress[1]
    ELSE LET project_duration == project.end_date - project.start_date
             elapsed_days == today - project.start_date
         IN  IF project_duration > 0
             THEN Frac(elapsed_days, project_duration)
             ELSE Zero

ProjectProgress(project, project_progress, today) ==
    IF project_progress # None
    THEN project_progress[1]
    ELSE LET project_duration == project.end_date - project.start_date
             elapsed_days == today - project.start_date
         IN  IF project_duration > 0
             THEN Min(Max(Frac(elapsed_days, project_duration), Zero), One)
             ELSE Zero

\* Mutant of EarnedValue: the final cap min(earned_value, BAC) of line 273 left out
EarnedValue_uncapped(project, actual_cost, total_obligations, project_progress, planned_value, budget_at_completion) ==
    IF project.cost_estimates # <<>>
    THEN LET estimated_total == R(SumSeq(project.cost_estimates))
         IN  IF Gt(estimated_total, Zero)
             THEN LET cost_based_progress ==
                          Div(Add(actual_cost, total_obligations), estimated_total)
                      schedule_based_progress == project_progress
                      estimated_progress ==
                          Min(Add(Mul(cost_based_progress, Frac(4, 10)),
                                  Mul(schedule_based_progress, Frac(6, 10))),
                              One)
                  IN  Mul(estimated_progress, budget_at_completion)
             ELSE Mul(planned_value, Frac(8, 10))
    ELSE Mul(planned_value, Frac(8, 10))

\* Mutant of get_cost_status: Over Budget only below 0.90
get_cost_status_strict(cpi_value) ==
    IF Gt(cpi_value, Frac(105, 100)) THEN "Under Budget"
    ELSE IF Lt(cpi_value, Frac(90, 100)) THEN "Over Budget"
    ELSE "On Budget"

\* Earned value: the 40/60 blend of cost and schedule progress when cost
\* estimates with a positive sum exist, else 0.8 x PV; never above BAC.
EarnedValue(project, actual_cost, total_obligations, project_progress, planned_value, budget_at_completion) ==
    LET earned_value ==
            IF project.cost_estimates # <<>>
            THEN LET estimated_total == R(SumSeq(project.cost_estimates))
                 IN  IF Gt(estimated_total, Zero)
                     THEN LET cost_based_progress ==
                                  Div(Add(actual_cost, total_obligations), estimated_total)
                              schedule_based_progress == project_progress
                              estimated_progress ==
                                  Min(Add(Mul(cost_based_progress, Frac(4, 10)),
                                          Mul(schedule_based_progress, Frac(6, 10))),
                                      One)
                          IN  Mul(estimated_progress, budget_at_completion)
                     ELSE Mul(planned_value, Frac(8, 10))
            ELSE Mul(planned_value, Frac(8, 10))
    IN  Min(earned_value, budget_at_completion)

get_cost_status(cpi_value) ==
    IF Gt(cpi_value, Frac(105, 100)) THEN "Under Budget"
    ELSE IF Lt(cpi_value, Frac(95, 100)) THEN "Over Budget"
    ELSE "On Budget"

ScheduleStatus(schedule_performance_index) ==
    IF Gt(schedule_performance_index, Frac(105, 100)) THEN "Ahead"
    ELSE IF Lt(schedule_performance_index, Frac(95, 100)) THEN "Behind"
    ELSE "On Schedule"

\* Mutant of BreachSeverity: High from 10 percent on
BreachSeverity_high10(estimate_at_completion_adj, budget_at_completion) ==
    LET breach_percent ==
            Mul(Div(Sub(estimate_at_completion_adj, budget_at_completion),
                    budget_at_completion), R(100))
    IN  IF Lt(breach_percent, R(5)) THEN "Low"
        ELSE IF Lt(breach_percent, R(10)) THEN "Medium"
        ELSE "High"

\* Mutant of BudgetBreachRisk: a forecast equal to the budget counted as a breach
BudgetBreachRisk_at_budget(estimate_at_completion_adj, budget_at_completion) ==
    Ge(estimate_at_completion_adj, budget_at_completion)

\* breach_severity of a breach (EAC_adj > BAC, BAC # 0)
BreachSeverity(estimate_at_completion_adj, budget_at_completion) ==
    LET breach_percent ==
            Mul(Div(Sub(estimate_at_completion_adj, budget_at_completion),
                    budget_at_completion), R(100))
    IN  IF Lt(breach_percent, R(5)) THEN "Low"
        ELSE IF Lt(breach_percent, R(15)) THEN "Medium"
        ELSE "High"

BudgetBreachRisk(estimate_at_completion_adj, budget_at_completion) ==
    Gt(estimate_at_completion_adj, budget_at_completion)

\* Mutant of PerformanceIndex: the guarded case yields 0.0
PerformanceIndex_zero(earned_value, denominator) ==
    IF Gt(denominator, Zero) THEN Div(earned_value, denominator) ELSE Zero

\* CPI = EV / AC if AC > 0 else 1.0; SPI likewise on PV
PerformanceIndex(earned_value, denominator) ==
    IF Gt(denominator, Zero) THEN Div(earned_value, denominator) ELSE One

\* Mutant of TotalCommitted: the obligations subtracted
TotalCommitted_minus(actual_cost, obligations_amount) ==
    Sub(actual_cost, obligations_amount)

\* total_committed = AC + obligations
TotalCommitted(actual_cost, obligations_amount) ==
    Add(actual_cost, obligations_amount)

\* Mutant of DynamicEtc: the remaining budget scaled by CPI_adj, not by 1 / CPI_adj
DynamicEtc_scaled(earned_value, budget_at_completion, cost_performance_index_adj) ==
    LET remaining_work_percent ==
            Max(Sub(One, Div(earned_value, budget_at_completion)), Zero)
        base_remaining_budget == Mul(budget_at_completion, remaining_work_percent)
    IN  IF Lt(cost_performance_index_adj, One)
        THEN Mul(base_remaining_budget, cost_performance_index_adj)
        ELSE Mul(base_remaining_budget, Frac(11, 10))

\* The dynamic ETC_adj (no manual override); BAC # 0, and CPI_adj # 0 when < 1
DynamicEtc(earned_value, budget_at_completion, cost_performance_index_adj) ==
    LET remaining_work_percent ==
            Max(Sub(One, Div(earned_value, budget_at_completion)), Zero)
        base_remaining_budget == Mul(budget_at_completion, remaining_work_percent)
    IN  IF Lt(cost_performance_index_adj, One)
        THEN Mul(base_remaining_budget, Div(One, cost_performance_index_adj))
        ELSE Mul(base_remaining_budget, Frac(11, 10))

\* Mutant of EstimateAtCompletionAdj: the obligations left out of the forecast
EstimateAtCompletionAdj_no_obligations(actual_cost, obligations_amount, estimate_to_complete_adj) ==
    Add(actual_cost, estimate_to_complete_adj)

\* EAC_adj = AC + obligations + ETC_adj
EstimateAtCompletionAdj(actual_cost, obligations_amount, estimate_to_complete_adj) ==
    Add(Add(actual_cost, obligations_amount), estimate_to_complete_adj)

ZeroDivisionError == [error |-> "ZeroDivisionError"]

calculate_enhanced_evm_metrics(project, total_spent, total_obligations, project_progress, manual_etc, include_obligations, today) ==
    LET budget_at_completion == R(project.total_budget)
        actual_cost == R(total_spent)
        progress == ProjectProgress(project, project_progress, today)
        planned_value == Mul(budget_at_completion, progress)
        earned_value == EarnedValue(project, actual_cost, R(total_obligations),
                                    progress, planned_value, budget_at_completion)
        cost_variance == Sub(earned_value, actual_cost)
        schedule_variance == Sub(earned_value, planned_value)
        cost_performance_index == PerformanceIndex(earned_value, actual_cost)
        schedule_performance_index == PerformanceIndex(earned_value, planned_value)
        obligations_amount == IF include_obligations THEN R(total_obligations) ELSE Zero
        total_committed == TotalCommitted(actual_cost, obligations_amount)
        cost_performance_index_adj == PerformanceIndex(earned_value, total_committed)
        cost_variance_adj == Sub(earned_value, total_committed)
        estimate_at_completion ==
            IF Gt(cost_performance_index, Zero)
            THEN Div(budget_at_completion, cost_performance_index)
            ELSE budget_at_completion
        variance_at_completion == Sub(budget_at_completion, estimate_at_completion)
        estimate_to_complete == Sub(estimate_at_completion, actual_cost)
        \* line 299 divides by BAC, line 305 by CPI_adj
        etc_raises ==
            /\ manual_etc = None
            /\ \/ budget_at_completion = Zero
               \/ cost_performance_index_adj = Zero
        estimate_to_complete_adj ==
            IF manual_etc # None
            THEN R(manual_etc[1])
            ELSE DynamicEtc(earned_value, budget_at_completion,
                            cost_performance_index_adj)
        estimate_at_completion_adj ==
            EstimateAtCompletionAdj(actual_cost, obligations_amount,
                                    estimate_to_complete_adj)
        variance_at_completion_adj ==
            Sub(budget_at_completion, estimate_at_completion_adj)
        budget_breach_risk ==
            BudgetBreachRisk(estimate_at_completion_adj, budget_at_completion)
        \* line 339 divides by BAC
        breach_raises == budget_breach_risk /\ budget_at_completion = Zero
    IN  IF etc_raises THEN ZeroDivisionError
        ELSE IF breach_raises THEN ZeroDivisionError
        ELSE [error |-> "none",
              budget_at_completion |-> budget_at_completion,
              actual_cost |-> actual_cost,
              earned_value |-> earned_value,
              planned_value |-> planned_value,
              total_obligations |-> obligations_amount,
              cost_variance |-> cost_variance,
              schedule_variance |-> schedule_variance,
              cost_performance_index |-> cost_performance_index,
              schedule_performance_index |-> schedule_performance_index,
              cost_performance_index_adj |-> cost_performance_index_adj,
              cost_variance_adj |-> cost_variance_adj,
              estimate_at_completion |-> estimate_at_completion,
              variance_at_completion |-> variance_at_completion,
              estimate_to_complete |-> estimate_to_complete,
              estimate_at_completion_adj |-> estimate_at_completion_adj,
              variance_at_completion_adj |-> variance_at_completion_adj,
              estimate_to_complete_adj |-> estimate_to_complete_adj,
              cost_status |-> get_cost_status(cost_performance_index),
              cost_status_adj |-> get_cost_status(cost_performance_index_adj),
              schedule_status |-> ScheduleStatus(schedule_performance_index),
              budget_breach_risk |-> budget_breach_risk,
              breach_severity |->
                  IF ~budget_breach_risk THEN "None"
                  ELSE BreachSeverity(estimate_at_completion_adj,
                                      budget_at_completion)]

\* Legacy entry point: obligations 0.0 and include_obligations False
calculate_evm_metrics(project, total_spent, project_progress, today) ==
    calculate_enhanced_evm_metrics(project, total_spent, 0, project_progress,
                                   None, FALSE, today)

-----------------------------------------------------------------------------
(* Direct calls of the calculator: the inputs drawn at Init, one call each *)

Budgets == {10 * k : k \in 0..MaxBudgetTens}
SpentAmounts == {5 * k : k \in 0..MaxSpentFives}
ObligationTotals == 0..MaxObligationAmount
ManualEtcs == {None} \cup {Some(m) : m \in 0..MaxManualEtc}
\* cost_estimates: the values of the dict; {} , one package of 0, of 10, two of 10
CostEstimates == {<<>>, <<0>>, <<10>>, <<10, 10>>}
\* <<start_date, end_date>> in days: a regular schedule and two degenerate ones
Schedules == {<<0, MaxDuration>>, <<0, 0>>, <<1, 0>>}
Todays == (0 - 1)..(MaxDuration + 1)
\* a progress handed in by the caller (beyond 1 included)
GivenProgress == {Some(Frac(3, 2))}

ProjectOf(total_budget, schedule, cost_estimates) ==
    [total_budget |-> total_budget,
     start_date |-> schedule[1],
     end_date |-> schedule[2],
     cost_estimates |-> cost_estimates]

\* <<project_progress, schedule, today>>: the progress computed from the dates,
\* or handed in (the dates are then not read)
Timings ==
    {<<None, sc, t>> : sc \in Schedules, t \in Todays}
        \cup {<<pp, <<0, MaxDuration>>, 0>> : pp \in GivenProgress}

NotCalled == [fn |-> "none", out |-> [error |-> "not_called"]]

\* args when the calculator is not called directly (given is FALSE)
NoArgs ==
    [given |-> FALSE, project |-> ProjectOf(0, <<0, 0>>, <<>>), total_spent |-> 0,
     total_obligations |-> 0, project_progress |-> None, manual_etc |-> None,
     include_obligations |-> TRUE, today |-> 0]

EmptyStore ==
    /\ projects = <<>>
    /\ phases = <<>>
    /\ cost_categories = <<>>
    /\ cost_entries = <<>>
    /\ obligations = <<>>
    /\ issued = [projects |-> {}, phases |-> 0, cost_categories |-> 0,
                 obligations |-> 0, cost_entries |-> 0]
    /\ client = <<>>
    /\ response = [route |-> "none", status |-> 0]
    /\ tasks = <<>>

InitEVM ==
    /\ EmptyStore
    /\ evm = NotCalled
    /\ \E b \in Budgets, ce \in CostEstimates, ac \in SpentAmounts,
          ob \in ObligationTotals, me \in ManualEtcs, io \in BOOLEAN,
          tm \in Timings :
            args = [given |-> TRUE,
                    project |-> ProjectOf(b, tm[2], ce),
                    total_spent |-> ac,
                    total_obligations |-> ob,
                    project_progress |-> tm[1],
                    manual_etc |-> me,
                    include_obligations |-> io,
                    today |-> tm[3]]

CallEnhanced ==
    /\ evm = NotCalled
    /\ evm' = [fn |-> "calculate_enhanced_evm_metrics",
               out |-> calculate_enhanced_evm_metrics(
                           args.project, args.total_spent, args.total_obligations,
                           args.project_progress, args.manual_etc,
                           args.include_obligations, args.today)]
    /\ UNCHANGED <<store, issued, client, response, args, tasks>>

CallLegacy ==
    /\ evm = NotCalled
    /\ evm' = [fn |-> "calculate_evm_metrics",
               out |-> calculate_evm_metrics(args.project, args.total_spent,
                                             args.project_progress, args.today)]
    /\ UNCHANGED <<store, issued, client, response, args, tasks>>

NextEVM == CallEnhanced \/ CallLegacy

SpecEVM == InitEVM /\ [][NextEVM]_vars

\* the EVMCalculation of the call, once it has returned one
Returned == evm.out.error = "none"
Enhanced == evm.fn = "calculate_enhanced_evm_metrics"
out == evm.out

\* the arguments calculate_enhanced_evm_metrics received (the legacy entry
\* point passes total_obligations 0.0 and no manual_etc)
InObligations == IF Enhanced THEN args.total_obligations ELSE 0
InManualEtc == IF Enhanced THEN args.manual_etc ELSE None

-----------------------------------------------------------------------------
(* Claims about the calculator, checked under SpecEVM *)

\* C1: in every result, earned_value <= budget_at_completion, whatever the
\* budget, actual cost, obligations, progress and cost estimates.
C1_EarnedValueAtMostBudget ==
    Returned => Le(out.earned_value, out.budget_at_completion)

\* C1 witness: no cost estimates, 0.8 x PV above BAC, and EV reported as BAC
C1_Witness ==
    /\ Returned
    /\ args.project.cost_estimates = <<>>
    /\ Gt(out.budget_at_completion, Zero)
    /\ Gt(Mul(out.planned_value, Frac(8, 10)), out.budget_at_completion)
    /\ out.earned_value = out.budget_at_completion

C8_Original ==
    (evm.fn # "none" /\ args.project.total_budget = 0)
        => /\ Returned
           /\ out.cost_performance_index = One
           /\ out.schedule_performance_index = One
           /\ out.cost_performance_index_adj = One

C10_Original ==
    Returned =>
        out.cost_status_adj =
            IF Lt(out.cost_performance_index_adj, Frac(90, 100)) THEN "Over Budget"
            ELSE IF Gt(out.cost_performance_index_adj, Frac(105, 100)) THEN "Under Budget"
            ELSE "On Budget"

-----------------------------------------------------------------------------
(* The MongoDB collections and the routes over them *)

\* cursor.to_list(1000)
ToListLimit == 1000

to_list(docs, n) == IF Len(docs) <= n THEN docs ELSE SubSeq(docs, 1, n)

RECURSIVE FirstWithId(_, _, _)
\* the index of the first document of coll with this id from index i on, 0 if none
FirstWithId(coll, id, i) ==
    IF i > Len(coll) THEN 0
    ELSE IF coll[i].id = id THEN i
    ELSE FirstWithId(coll, id, i + 1)

\* collection.find_one({"id": id}): <<>> (None) or <<document>>
find_one(coll, id) ==
    LET i == FirstWithId(coll, id, 1)
    IN  IF i = 0 THEN None ELSE Some(coll[i])

\* collection.delete_one({"id": id})
delete_one(coll, id) ==
    LET i == FirstWithId(coll, id, 1)
    IN  IF i = 0 THEN coll
        ELSE SubSeq(coll, 1, i - 1) \o SubSeq(coll, i + 1, Len(coll))

\* a variant that falls back to the first document when no id matches
update_status_or_first(coll, id, status) ==
    LET i == FirstWithId(coll, id, 1)
    IN  IF i # 0 THEN [coll EXCEPT ![i].status = status]
        ELSE IF coll = <<>> THEN coll
        ELSE [coll EXCEPT ![1].status = status]

\* collection.update_one({"id": id}, {"$set": {"status": status}})
update_status(coll, id, status) ==
    LET i == FirstWithId(coll, id, 1)
    IN  IF i = 0 THEN coll ELSE [coll EXCEPT ![i].status = status]

\* matched_count / deleted_count of the two
matched_count(coll, id) == IF FirstWithId(coll, id, 1) = 0 THEN 0 ELSE 1

RECURSIVE SumAmounts(_, _)
\* sum(doc.get(field, 0) for doc in docs), the documents from index i on
SumAmounts(amounts, i) ==
    IF i > Len(amounts) THEN 0 ELSE amounts[i] + SumAmounts(amounts, i + 1)

DefaultCategories ==
    <<"Internal Hours", "External Hours", "Materials", "Mechanical Costs",
      "Software Licenses", "Travel & Expenses">>

RECURSIVE InsertMissing(_, _, _)
\* initialize_default_categories: each default name not yet stored is inserted
InsertMissing(categories, names, last_id) ==
    IF names = <<>> THEN categories
    ELSE IF \E i \in 1..Len(categories) : categories[i].name = Head(names)
    THEN InsertMissing(categories, Tail(names), last_id)
    ELSE InsertMissing(Append(categories, [id |-> last_id + 1, name |-> Head(names)]),
                       Tail(names), last_id + 1)

\* ids: the project a run may create, the project ids and category ids requests name
CreatableProjectIds == {"P1"}
RequestProjectIds == {"P1", "P2"}
RequestCategoryIds == {0, 1}
\* POST /projects bodies
ProjectBodies ==
    {ProjectOf(10 * MaxBudgetTens, <<0, MaxDuration>>, ce) : ce \in {<<10>>}}
\* POST /obligations: amount (in thousands) and the confidence_level sent with it
ObligationOffers ==
    {[amount |-> 50, confidence_level |-> "high"],
     [amount |-> 20, confidence_level |-> "low"]}
\* PUT /obligations/{id}/status bodies
RequestStatuses == {"committed", "cancelled", "converted_to_actual", "active"}
ValidObligationStatuses == {"committed", "cancelled", "converted_to_actual"}
SummaryDays == {1, MaxDuration}

Init ==
    /\ EmptyStore
    /\ args = NoArgs
    /\ evm = NotCalled

create_project(pid, body) ==
    /\ pid \notin issued.projects
    /\ projects' = Append(projects, [id |-> pid,
                                     total_budget |-> body.total_budget,
                                     start_date |-> body.start_date,
                                     end_date |-> body.end_date,
                                     cost_estimates |-> body.cost_estimates])
    /\ cost_categories' =
           IF Len(cost_categories) = 0
           THEN InsertMissing(cost_categories, DefaultCategories,
                              issued.cost_categories)
           ELSE cost_categories
    /\ issued' = [issued EXCEPT
                     !.projects = @ \cup {pid},
                     !.cost_categories = @ + Len(cost_categories') - Len(cost_categories)]
    /\ response' = [route |-> "create_project", status |-> 200, project_id |-> pid]
    /\ UNCHANGED <<phases, cost_entries, obligations, client, args, evm, tasks>>

create_obligation(project_id, category_id, offer) ==
    /\ issued.obligations < MaxObligations
    /\ LET category == find_one(cost_categories, category_id)
           id == issued.obligations + 1
       IN  IF category = None
           THEN \* HTTPException(404) is caught by "except Exception" and becomes 500
                /\ response' = [route |-> "create_obligation", status |-> 500]
                /\ UNCHANGED <<obligations, issued, client>>
           ELSE /\ obligations' =
                       Append(obligations,
                              [id |-> id,
                               project_id |-> project_id,
                               category_id |-> category_id,
                               category_name |-> category[1].name,
                               amount |-> offer.amount,
                               status |-> "committed"])
                /\ issued' = [issued EXCEPT !.obligations = id]
                /\ client' = Append(client,
                                    [project_id |-> project_id,
                                     amount |-> offer.amount,
                                     confidence_level |->
                                         IF "confidence_level" \in DOMAIN offer
                                         THEN offer.confidence_level
                                         ELSE "(not sent)",
                                     status |-> "committed"])
                /\ response' = [route |-> "create_obligation", status |-> 200,
                                id |-> id]
    /\ UNCHANGED <<phases, projects, cost_categories, cost_entries, args, evm, tasks>>

update_obligation_status(obligation_id, status) ==
    /\ IF status \notin ValidObligationStatuses
       THEN /\ response' = [route |-> "update_obligation_status", status |-> 400]
            /\ UNCHANGED <<obligations, client>>
       ELSE IF matched_count(obligations, obligation_id) = 0
       THEN /\ obligations' = update_status(obligations, obligation_id, status)
            /\ response' = [route |-> "update_obligation_status", status |-> 404]
            /\ UNCHANGED client
       ELSE /\ obligations' = update_status(obligations, obligation_id, status)
            /\ response' = [route |-> "update_obligation_status", status |-> 200]
            /\ client' = [client EXCEPT ![obligation_id].status = status]
    /\ UNCHANGED <<phases, projects, cost_categories, cost_entries, issued, args, evm, tasks>>

delete_obligation(obligation_id) ==
    /\ obligations' = delete_one(obligations, obligation_id)
    /\ IF matched_count(obligations, obligation_id) = 0
       THEN /\ response' = [route |-> "delete_obligation", status |-> 404]
            /\ UNCHANGED client
       ELSE /\ response' = [route |-> "delete_obligation", status |-> 200]
            /\ client' = [client EXCEPT ![obligation_id].status = "deleted"]
    /\ UNCHANGED <<phases, projects, cost_categories, cost_entries, issued, args, evm, tasks>>

\* Mutant of CommittedObligations: the status filter left out of the query
CommittedObligations_any_status(project_id) ==
    LET Match(o) == o.project_id = project_id
    IN  to_list(SelectSeq(obligations, Match), ToListLimit)

\* db.obligations.find({"project_id": .., "status": "committed"}).to_list(1000)
CommittedObligations(project_id) ==
    LET Match(o) == o.project_id = project_id /\ o.status = "committed"
    IN  to_list(SelectSeq(obligations, Match), ToListLimit)

get_project_obligations(project_id) ==
    /\ response' = [route |-> "get_project_obligations", status |-> 200,
                    project_id |-> project_id,
                    body |-> CommittedObligations(project_id)]
    /\ UNCHANGED <<store, issued, client, args, evm, tasks>>

\* the response body of GET /projects/{project_id}/obligations/summary
ObligationsSummary(project_id) ==
    LET found == CommittedObligations(project_id)
        names == {found[i].category_name : i \in 1..Len(found)}
        Named(c) == LET In(o) == o.category_name = c IN SelectSeq(found, In)
    IN  [total_obligations |->
             SumAmounts([i \in 1..Len(found) |-> found[i].amount], 1),
         total_count |-> Len(found),
         by_category |->
             [c \in names |->
                 [count |-> Len(Named(c)),
                  total |-> SumAmounts([i \in 1..Len(Named(c)) |-> Named(c)[i].amount], 1),
                  items |-> Named(c)]]]

get_project_obligations_summary(project_id) ==
    /\ response' = [route |-> "get_project_obligations_summary", status |-> 200,
                    project_id |-> project_id,
                    body |-> ObligationsSummary(project_id)]
    /\ UNCHANGED <<store, issued, client, args, evm, tasks>>

\* the status_indicator of a summary
StatusIndicator(budget_utilization) ==
    IF Le(budget_utilization, R(75)) THEN "on_track"
    ELSE IF Le(budget_utilization, R(90)) THEN "warning"
    ELSE "over_budget"

\* the ProjectSummary of a stored project (the per-category breakdowns and
\* the trend are left out; no modelled request sends a phase_id)
ProjectSummary(project, today) ==
    LET Mine(e) == e.project_id = project.id
        entries == to_list(SelectSeq(cost_entries, Mine), ToListLimit)
        Outstanding(e) == e.status = "outstanding"
        Paid(e) == e.status = "paid"
        Total(es) == SumAmounts([i \in 1..Len(es) |-> es[i].total_amount], 1)
        project_phases == to_list(SelectSeq(phases, Mine), ToListLimit)
        PhaseSpent(phase) ==
            LET InPhase(e) == e.phase_id = Some(phase.id)
            IN  Total(SelectSeq(entries, InPhase))
        PhaseSummary(phase) ==
            [id |-> phase.id,
             budget_allocated |-> phase.budget_allocation,
             amount_spent |-> PhaseSpent(phase),
             budget_remaining |-> phase.budget_allocation - PhaseSpent(phase),
             utilization_percentage |->
                 IF phase.budget_allocation > 0
                 THEN Mul(Frac(PhaseSpent(phase), phase.budget_allocation), R(100))
                 ELSE Zero,
             status |-> phase.status]
        total_spent == Total(entries)
        total_outstanding == Total(SelectSeq(entries, Outstanding))
        total_paid == Total(SelectSeq(entries, Paid))
        budget_utilization ==
            IF project.total_budget > 0
            THEN Mul(Frac(total_spent, project.total_budget), R(100))
            ELSE Zero
    IN  [total_spent |-> total_spent,
         total_outstanding |-> total_outstanding,
         total_paid |-> total_paid,
         budget_remaining_actual |-> project.total_budget - total_spent,
         budget_remaining_committed |-> project.total_budget - total_paid,
         budget_utilization |-> budget_utilization,
         phases_summary |-> [i \in 1..Len(project_phases) |->
                                PhaseSummary(project_phases[i])],
         status_indicator |-> StatusIndicator(budget_utilization),
         evm_metrics |-> calculate_evm_metrics(project, total_spent, None, today)]

get_project_summary(project_id, today) ==
    /\ LET project == find_one(projects, project_id)
       IN  IF project = None
           THEN response' = [route |-> "get_project_summary", status |-> 404]
           ELSE \E summary \in {ProjectSummary(project[1], today)} :
                    IF summary.evm_metrics.error # "none"
                    THEN response' = [route |-> "get_project_summary", status |-> 500]
                    ELSE response' = [route |-> "get_project_summary", status |-> 200,
                                      project_id |-> project_id,
                                      body |-> summary]
    /\ UNCHANGED <<store, issued, client, args, evm, tasks>>

Next ==
    \/ \E pid \in CreatableProjectIds, body \in ProjectBodies :
           create_project(pid, body)
    \/ \E pid \in RequestProjectIds, cid \in RequestCategoryIds,
          offer \in ObligationOffers :
           create_obligation(pid, cid, offer)
    \/ \E id \in 1..MaxObligations, status \in RequestStatuses :
           update_obligation_status(id, status)
    \/ \E id \in 1..MaxObligations : delete_obligation(id)
    \/ \E pid \in RequestProjectIds : get_project_obligations(pid)
    \/ \E pid \in RequestProjectIds : get_project_obligations_summary(pid)
    \/ \E pid \in RequestProjectIds, today \in SummaryDays :
           get_project_summary(pid, today)

Spec == Init /\ [][Next]_vars

\* POST /obligations bodies without a usable confidence level: none sent, or
\* one that is not high, medium or low
UnweightedOffers ==
    {[amount |-> 50],
     [amount |-> 20, confidence_level |-> "urgent"]}

NextUnweighted ==
    \/ \E pid \in CreatableProjectIds, body \in ProjectBodies :
           create_project(pid, body)
    \/ \E pid \in RequestProjectIds, cid \in RequestCategoryIds,
          offer \in UnweightedOffers :
           create_obligation(pid, cid, offer)
    \/ \E id \in 1..MaxObligations : delete_obligation(id)
    \/ \E pid \in RequestProjectIds : get_project_obligations(pid)
    \/ \E pid \in RequestProjectIds : get_project_obligations_summary(pid)

SpecUnweighted == Init /\ [][NextUnweighted]_vars

\* the routes that write obligations, and the list that reads them
NextStatusUpdates ==
    \/ \E pid \in CreatableProjectIds, body \in ProjectBodies :
           create_project(pid, body)
    \/ \E pid \in RequestProjectIds, cid \in RequestCategoryIds,
          offer \in ObligationOffers :
           create_obligation(pid, cid, offer)
    \/ \E id \in 1..MaxObligations, status \in RequestStatuses :
           update_obligation_status(id, status)
    \/ \E id \in 1..MaxObligations : delete_obligation(id)
    \/ \E pid \in RequestProjectIds : get_project_obligations(pid)

SpecStatusUpdates == Init /\ [][NextStatusUpdates]_vars

-----------------------------------------------------------------------------
(* Claims about the obligation routes, checked under Spec *)

\* the caller's obligations of a project that it created and has neither
\* deleted nor moved out of the active status
ClientActive(project_id) ==
    {id \in 1..Len(client) :
        /\ client[id].project_id = project_id
        /\ client[id].status = "committed"}

\* the confidence weights of the specification, in percent
WeightPct(confidence_level) ==
    CASE confidence_level = "high" -> 95
      [] confidence_level = "medium" -> 80
      [] confidence_level = "low" -> 60

RECURSIVE ClientSum(_, _)
\* the sum of term[id] over a set of the caller's obligation ids
ClientSum(ids, term) ==
    IF ids = {} THEN 0
    ELSE LET id == CHOOSE x \in ids : TRUE
         IN  term[id] + ClientSum(ids \ {id}, term)

Answered(route) == response.route = route /\ response.status = 200

\* C2: the obligations total reported by the obligations summary and by the
\* project summary's evm_metrics is the sum of amount x confidence weight
\* (0.95 / 0.80 / 0.60) over the project's active obligations.
C2_Original ==
    LET weighted == [id \in 1..Len(client) |->
                        client[id].amount * WeightPct(client[id].confidence_level)]
        expected == ClientSum(ClientActive(response.project_id), weighted)
    IN  /\ Answered("get_project_obligations_summary") =>
               100 * response.body.total_obligations = expected
        /\ Answered("get_project_summary") =>
               response.body.evm_metrics.total_obligations = Frac(expected, 100)

\* C3: after any sequence of create / update-status / delete requests, the
\* obligations list and the obligations summary of a project cover exactly
\* the obligations of that project that are in the active ("committed")
\* status: created, not deleted, not cancelled or converted.
C3_ListAndSummaryCoverActive ==
    LET amount == [id \in 1..Len(client) |-> client[id].amount]
        active == ClientActive(response.project_id)
    IN  /\ Answered("get_project_obligations") =>
               /\ {response.body[i].id : i \in 1..Len(response.body)} = active
               /\ Len(response.body) = Cardinality(active)
               /\ \A i \in 1..Len(response.body) :
                      /\ response.body[i].status = "committed"
                      /\ response.body[i].project_id = response.project_id
                      /\ response.body[i].amount = client[response.body[i].id].amount
        /\ Answered("get_project_obligations_summary") =>
               /\ response.body.total_count = Cardinality(active)
               /\ response.body.total_obligations = ClientSum(active, amount)

\* a summary answered for a project that has one active obligation and one
\* that was cancelled, converted or deleted
C3_Witness ==
    /\ Answered("get_project_obligations_summary")
    /\ response.body.total_count = 1
    /\ \E id \in 1..Len(client) :
           /\ client[id].project_id = response.project_id
           /\ client[id].status # "committed"

-----------------------------------------------------------------------------
(* Cost entries and the EVM timeline *)

MaxCostEntries == 2       \* cost entries created in a run

\* "timeline_months += 3"
LookaheadMonths == 3

\* 30.44, the average days per month
DaysPerMonth == Frac(3044, 100)

\* int(x) of a float x >= 0
IntPart(x) == x.n \div x.d

\* round(x, ndigits) with scale = 10^ndigits: the nearest multiple of 1/scale,
\* a tie going to the even one
Round(x, scale) ==
    LET y == Mul(x, R(scale))
        f == y.n \div y.d
        twice == 2 * (y.n - f * y.d)
        up == twice > y.d \/ (twice = y.d /\ f % 2 = 1)
    IN  Frac(IF up THEN f + 1 ELSE f, scale)

\* the days of the months of a calendar year; day 0 is its first of January
DaysInMonth == <<31, 28, 31, 30, 31, 30, 31, 31, 30, 31, 30, 31>>

RECURSIVE FirstOfMonth(_, _, _)
\* date.replace(day=1): the first day of the month of day, scanning from the
\* month m that begins on day first
FirstOfMonth(day, first, m) ==
    IF day < first + DaysInMonth[m] THEN first
    ELSE FirstOfMonth(day, first + DaysInMonth[m], (m % 12) + 1)

\* project_start.replace(day=1) + timedelta(days=30.44 * month)
MonthDate(project, month) ==
    FirstOfMonth(project.start_date, 0, 1) + IntPart(Mul(DaysPerMonth, R(month)))

\* project_duration_months
DurationMonths(project) ==
    Div(R(project.end_date - project.start_date), DaysPerMonth)

\* a truthy Optional number: given and not 0
Truthy(opt) == opt # None /\ opt[1] # 0

\* a variant whose linear baseline is not capped at the total budget
CostBaseline_uncapped(project, month) ==
    LET months == DurationMonths(project)
        total_budget == R(project.total_budget)
    IN  IF project.cost_estimates # <<>> /\ SumSeq(project.cost_estimates) > 0
        THEN LET t == IF Gt(months, Zero) THEN Div(R(month), months) ELSE Zero
                 s_curve_factor ==
                     Sub(Mul(R(3), Mul(t, t)), Mul(R(2), Mul(t, Mul(t, t))))
             IN  Min(Mul(s_curve_factor, total_budget), total_budget)
        ELSE LET monthly_planned_budget ==
                     IF Gt(months, Zero) THEN Div(total_budget, months) ELSE Zero
             IN  Mul(monthly_planned_budget, R(month + 1))

\* cost_baseline_monthly[month], for month in range(int(project_duration_months) + 1)
CostBaseline(project, month) ==
    LET months == DurationMonths(project)
        total_budget == R(project.total_budget)
    IN  IF project.cost_estimates # <<>> /\ SumSeq(project.cost_estimates) > 0
        THEN LET t == IF Gt(months, Zero) THEN Div(R(month), months) ELSE Zero
                 s_curve_factor ==
                     Sub(Mul(R(3), Mul(t, t)), Mul(R(2), Mul(t, Mul(t, t))))
             IN  Min(Mul(s_curve_factor, total_budget), total_budget)
        ELSE LET monthly_planned_budget ==
                     IF Gt(months, Zero) THEN Div(total_budget, months) ELSE Zero
             IN  Min(Mul(monthly_planned_budget, R(month + 1)), total_budget)

\* the planned_value of a timeline month
TimelinePlannedValue(project, month) ==
    IF month < IntPart(DurationMonths(project)) + 1
    THEN CostBaseline(project, month)
    ELSE R(project.total_budget)

\* month_actual: the entries of the project dated up to the month's date
MonthActual(project, month) ==
    LET Counted(e) == e.project_id = project.id
                          /\ e.entry_date <= MonthDate(project, month)
        entries == SelectSeq(to_list(cost_entries, ToListLimit), Counted)
    IN  SumAmounts([i \in 1..Len(entries) |-> entries[i].total_amount], 1)

\* a variant that credits the whole spend as earned, up to the planned value
TimelineEarnedValue_full_efficiency(project, month_actual, planned_value) ==
    IF month_actual > 0 THEN Min(R(month_actual), planned_value) ELSE Zero

\* the earned_value of a timeline month
TimelineEarnedValue(project, month_actual, planned_value) ==
    LET total_budget == R(project.total_budget)
        spending_ratio ==
            IF project.total_budget > 0 THEN Div(R(month_actual), total_budget)
            ELSE Zero
        efficiency_factor ==
            Add(Frac(85, 100), Mul(Frac(5, 100), Min(spending_ratio, One)))
        plain == Min(Mul(Mul(spending_ratio, total_budget), Frac(85, 100)),
                     Mul(planned_value, Frac(9, 10)))
    IN  IF month_actual > 0
        THEN IF project.cost_estimates # <<>>
             THEN IF SumSeq(project.cost_estimates) > 0
                  THEN Min(Mul(Mul(spending_ratio, total_budget), efficiency_factor),
                           Mul(planned_value, Frac(95, 100)))
                  ELSE plain
             ELSE plain
        ELSE Zero

\* cpi and spi of a timeline month: "x / y if y > 0 else 1.0"
TimelineIndex(earned_value, denominator) ==
    IF Gt(denominator, Zero) THEN Div(earned_value, denominator) ELSE One

RECURSIVE MonthsBefore(_, _, _, _)
\* year * 12 + month of a day, counted from the January of day 0: k months
\* lie before the month m that begins on day first
MonthsBefore(day, first, m, k) ==
    IF day < first + DaysInMonth[m] THEN k
    ELSE MonthsBefore(day, first + DaysInMonth[m], (m % 12) + 1, k + 1)

\* months_ahead of a future month
MonthsAhead(month_date, today) ==
    MonthsBefore(month_date, 0, 1, 0) - MonthsBefore(today, 0, 1, 0)

\* the unrounded figures of a timeline month
TimelineFigures(project, month) ==
    LET planned_value == TimelinePlannedValue(project, month)
        month_actual == MonthActual(project, month)
        earned_value == TimelineEarnedValue(project, month_actual, planned_value)
    IN  [planned_value |-> planned_value,
         month_actual |-> month_actual,
         earned_value |-> earned_value,
         cpi |-> TimelineIndex(earned_value, R(month_actual)),
         spi |-> TimelineIndex(earned_value, planned_value)]

\* eac of a timeline month: total_budget / cpi, and for a month after today
\* total_budget / latest_cpi x (1 + 0.02 x months_ahead), latest_cpi being
\* the rounded cpi of the point appended last (1.0 for the first point)
TimelineEac(project, today, month, cpi, latest_cpi) ==
    LET total_budget == R(project.total_budget)
        eac == IF Gt(cpi, Zero) THEN Div(total_budget, cpi) ELSE total_budget
    IN  IF MonthDate(project, month) > today /\ Gt(latest_cpi, Zero)
        THEN Mul(Div(total_budget, latest_cpi),
                 Add(One, Mul(R(MonthsAhead(MonthDate(project, month), today)),
                              Frac(2, 100))))
        ELSE eac

\* one element of timeline_data (the month label is left out), from the
\* figures of the month and the rounded cpi of the point before it
TimelinePoint(project, today, month, figures, latest_cpi) ==
    LET eac == TimelineEac(project, today, month, figures.cpi, latest_cpi)
    IN  [month_number |-> month + 1,
         date |-> MonthDate(project, month),
         is_future |-> MonthDate(project, month) > today,
         planned_value |-> Round(figures.planned_value, 100),
         earned_value |-> Round(figures.earned_value, 100),
         actual_cost |-> Round(R(figures.month_actual), 100),
         eac |-> Round(eac, 100),
         etc |-> Round(Sub(eac, R(figures.month_actual)), 100),
         cpi |-> Round(figures.cpi, 1000),
         spi |-> Round(figures.spi, 1000),
         cost_variance |->
             Round(Sub(figures.earned_value, R(figures.month_actual)), 100),
         schedule_variance |->
             Round(Sub(figures.earned_value, figures.planned_value), 100),
         vac |-> Round(Sub(R(project.total_budget), eac), 100)]

\* timeline_months
TimelineMonths(project, today) ==
    IntPart(DurationMonths(project)) + 1
        + (IF today < project.end_date THEN LookaheadMonths ELSE 0)

\* timeline_data
Timeline(project, today) ==
    LET timeline_months == TimelineMonths(project, today)
        figures == [i \in 1..timeline_months |-> TimelineFigures(project, i - 1)]
                       \o <<>>
    IN  [i \in 1..timeline_months |->
            TimelinePoint(project, today, i - 1, figures[i],
                          IF i > 1 THEN Round(figures[i - 1].cpi, 1000) ELSE One)]
            \o <<>>

\* overrun_point: the first point whose eac exceeds total_budget * 1.05
OverrunPoint(project, timeline_data) ==
    LET limit == Mul(R(project.total_budget), Frac(105, 100))
        over == {i \in 1..Len(timeline_data) : Gt(timeline_data[i].eac, limit)}
    IN  IF over = {} THEN None
        ELSE LET i == CHOOSE k \in over : \A j \in over : k <= j
             IN  Some([month_number |-> timeline_data[i].month_number,
                       eac |-> timeline_data[i].eac,
                       budget_exceeded_by |->
                           Sub(timeline_data[i].eac, R(project.total_budget)),
                       is_prediction |-> timeline_data[i].is_future])

\* recent_cpi_trend: the cpi of those of the last three points that are not
\* future points
RecentCpiTrend(timeline_data) ==
    LET Past(point) == ~point.is_future
        last3 == IF Len(timeline_data) > 3
                 THEN SubSeq(timeline_data, Len(timeline_data) - 2, Len(timeline_data))
                 ELSE timeline_data
        past == SelectSeq(last3, Past)
    IN  [i \in 1..Len(past) |-> past[i].cpi]

\* cost_trend_deterioration
CostTrendDeterioration(timeline_data) ==
    LET recent_cpi_trend == RecentCpiTrend(timeline_data)
        cpi_change == Sub(recent_cpi_trend[Len(recent_cpi_trend)], recent_cpi_trend[1])
    IN  IF Len(timeline_data) >= 3 /\ Len(recent_cpi_trend) >= 2
           /\ Lt(cpi_change, Frac(0 - 5, 100))
        THEN Some([cpi_change |-> Round(cpi_change, 1000),
                   trend |-> "deteriorating",
                   severity |-> IF Lt(cpi_change, Frac(0 - 1, 10))
                                THEN "high" ELSE "medium"])
        ELSE None

\* the points that are not future points
CurrentData(timeline_data) ==
    LET Past(point) == ~point.is_future
    IN  SelectSeq(timeline_data, Past)

\* completion_prediction divides by total_budget when there is a current
\* point (a month whose date is not after today): ZeroDivisionError
TimelineRaises(project, today) ==
    /\ project.total_budget = 0
    /\ \E month \in 0..(TimelineMonths(project, today) - 1) :
           MonthDate(project, month) <= today

\* completion_prediction (months_remaining and the percentages rounded to one digit)
CompletionPrediction(project, timeline_data) ==
    LET current_data == CurrentData(timeline_data)
        latest_point == current_data[Len(current_data)]
        total_budget == R(project.total_budget)
        Future(point) == point.is_future
        ahead == Len(SelectSeq(timeline_data, Future)) - LookaheadMonths
    IN  IF current_data = <<>> THEN None
        ELSE Some([current_progress_pct |->
                       Round(Mul(Div(latest_point.earned_value, total_budget), R(100)), 10),
                   projected_completion_cost |-> latest_point.eac,
                   projected_overrun_pct |->
                       Round(Mul(Div(Sub(latest_point.eac, total_budget), total_budget),
                                 R(100)), 10),
                   months_remaining |-> IF ahead > 0 THEN ahead ELSE 0,
                   cost_efficiency |->
                       IF Ge(latest_point.cpi, Frac(95, 100)) THEN "good"
                       ELSE IF Lt(latest_point.cpi, Frac(85, 100)) THEN "poor"
                       ELSE "fair"])

\* current_performance: the figures of the last point of the timeline
CurrentPerformance(project, timeline_data) ==
    LET last == timeline_data[Len(timeline_data)]
    IN  [current_cpi |-> last.cpi,
         current_spi |-> last.spi,
         final_eac |-> last.eac,
         projected_overrun |-> Sub(last.eac, R(project.total_budget))]

\* POST /projects bodies of the timeline runs: an S-curve baseline over 25
\* months, a linear one over a month and a fraction, and two projects that
\* start and end on the same day (one of them without budget)
TimelineProjectBodies ==
    {ProjectOf(10 * MaxBudgetTens, <<0, 761>>, <<10>>),
     ProjectOf(10 * MaxBudgetTens, <<14, 54>>, <<>>),
     ProjectOf(10 * MaxBudgetTens, <<0, 0>>, <<10>>),
     ProjectOf(0, <<0, 0>>, <<>>)}
\* date.today() at a request
TimelineTodays == {10, 800}
\* POST /cost-entries bodies
CostEntryAmounts ==
    {[total_amount |-> Some(5), hours |-> None, hourly_rate |-> None,
      quantity |-> None, unit_price |-> None],
     [total_amount |-> None, hours |-> Some(2), hourly_rate |-> Some(5),
      quantity |-> None, unit_price |-> None],
     [total_amount |-> Some(0), hours |-> None, hourly_rate |-> None,
      quantity |-> Some(5), unit_price |-> Some(2)],
     [total_amount |-> None, hours |-> Some(2), hourly_rate |-> None,
      quantity |-> None, unit_price |-> None]}
CostEntryDates == {None, Some(70)}

create_cost_entry(project_id, category_id, amounts, entry_date, today) ==
    /\ issued.cost_entries < MaxCostEntries
    /\ LET category == find_one(cost_categories, category_id)
           total_amount ==
               IF Truthy(amounts.total_amount) THEN amounts.total_amount
               ELSE IF Truthy(amounts.hours) /\ Truthy(amounts.hourly_rate)
               THEN Some(amounts.hours[1] * amounts.hourly_rate[1])
               ELSE IF Truthy(amounts.quantity) /\ Truthy(amounts.unit_price)
               THEN Some(amounts.quantity[1] * amounts.unit_price[1])
               ELSE None
           id == issued.cost_entries + 1
       IN  IF category = None
           THEN /\ response' = [route |-> "create_cost_entry", status |-> 404]
                /\ UNCHANGED <<cost_entries, issued>>
           ELSE IF total_amount = None
           THEN /\ response' = [route |-> "create_cost_entry", status |-> 400]
                /\ UNCHANGED <<cost_entries, issued>>
           ELSE /\ cost_entries' =
                       Append(cost_entries,
                              [id |-> id,
                               project_id |-> project_id,
                               phase_id |-> None,
                               category_id |-> category_id,
                               category_name |-> category[1].name,
                               total_amount |-> total_amount[1],
                               status |-> IF "status" \in DOMAIN amounts
                                          THEN amounts.status
                                          ELSE "outstanding",
                               entry_date |-> IF entry_date # None
                                              THEN entry_date[1] ELSE today])
                /\ issued' = [issued EXCEPT !.cost_entries = id]
                /\ response' = [route |-> "create_cost_entry", status |-> 200,
                                id |-> id]
    /\ UNCHANGED <<phases, projects, cost_categories, obligations, client, args, evm, tasks>>

get_evm_timeline(project_id, today) ==
    /\ LET project == find_one(projects, project_id)
       IN  IF project = None
           THEN response' = [route |-> "get_evm_timeline", status |-> 404]
           ELSE IF TimelineRaises(project[1], today)
           THEN response' = [route |-> "get_evm_timeline", status |-> 500]
           ELSE \E timeline_data \in {Timeline(project[1], today)} :
                    response' =
                        [route |-> "get_evm_timeline", status |-> 200,
                         project_id |-> project_id,
                         today |-> today,
                         body |-> timeline_data,
                         overrun_point |-> OverrunPoint(project[1], timeline_data),
                         cost_trend_deterioration |->
                             CostTrendDeterioration(timeline_data),
                         completion_prediction |->
                             CompletionPrediction(project[1], timeline_data),
                         current_performance |->
                             CurrentPerformance(project[1], timeline_data)]
    /\ UNCHANGED <<store, issued, client, args, evm, tasks>>

NextTimeline ==
    \/ \E pid \in CreatableProjectIds, body \in TimelineProjectBodies :
           create_project(pid, body)
    \/ \E cid \in RequestCategoryIds, amounts \in CostEntryAmounts,
          entry_date \in CostEntryDates, today \in TimelineTodays :
           create_cost_entry("P1", cid, amounts, entry_date, today)
    \/ \E pid \in RequestProjectIds, today \in TimelineTodays :
           get_evm_timeline(pid, today)
    \/ \E pid \in RequestProjectIds, today \in TimelineTodays :
           get_project_summary(pid, today)

SpecTimeline == Init /\ [][NextTimeline]_vars

\* the calculator called directly, or the routes run from the empty store
InitRatios == InitEVM \/ Init

NextRatios ==
    \/ args.given /\ NextEVM
    \/ ~args.given /\ NextTimeline

SpecRatios == InitRatios /\ [][NextRatios]_vars

\* POST /cost-entries bodies of the runs with a credit: a negative
\* total_amount is accepted as it is
SignedCostEntryAmounts ==
    {[total_amount |-> Some(10), hours |-> None, hourly_rate |-> None,
      quantity |-> None, unit_price |-> None],
     [total_amount |-> Some(0 - 5), hours |-> None, hourly_rate |-> None,
      quantity |-> None, unit_price |-> None]}

NextSigned ==
    \/ \E pid \in CreatableProjectIds, body \in TimelineProjectBodies :
           create_project(pid, body)
    \/ \E cid \in RequestCategoryIds, amounts \in SignedCostEntryAmounts,
          entry_date \in CostEntryDates, today \in TimelineTodays :
           create_cost_entry("P1", cid, amounts, entry_date, today)
    \/ \E pid \in RequestProjectIds, today \in TimelineTodays :
           get_evm_timeline(pid, today)

SpecSigned == Init /\ [][NextSigned]_vars

-----------------------------------------------------------------------------
(* Maintenance of cost entries and cost categories *)

\* a variant that also takes "cancelled"
ValidCostStatuses_with_cancelled == {"outstanding", "paid", "cancelled"}

\* the statuses update_cost_entry_status accepts
ValidCostStatuses == {"outstanding", "paid"}

\* PUT /cost-entries/{id}/status bodies
CostRequestStatuses == {"outstanding", "paid", "cancelled"}

update_cost_entry_status(entry_id, status) ==
    /\ IF status \notin ValidCostStatuses
       THEN /\ response' = [route |-> "update_cost_entry_status", status |-> 400]
            /\ UNCHANGED cost_entries
       ELSE /\ cost_entries' = update_status(cost_entries, entry_id, status)
            /\ response' = [route |-> "update_cost_entry_status",
                            status |-> IF matched_count(cost_entries, entry_id) = 0
                                       THEN 404 ELSE 200]
    /\ UNCHANGED <<phases, projects, cost_categories, obligations, issued, client, args, evm, tasks>>

delete_cost_entry(entry_id) ==
    /\ cost_entries' = delete_one(cost_entries, entry_id)
    /\ response' = [route |-> "delete_cost_entry",
                    status |-> IF matched_count(cost_entries, entry_id) = 0
                               THEN 404 ELSE 200]
    /\ UNCHANGED <<phases, projects, cost_categories, obligations, issued, client, args, evm, tasks>>

\* a variant of the query that only finds outstanding entries
ReferencingEntries_outstanding(category_id) ==
    LET Match(e) == e.category_id = category_id /\ e.status = "outstanding"
    IN  to_list(SelectSeq(cost_entries, Match), 1)

\* db.cost_entries.find({"category_id": category_id}).to_list(1)
ReferencingEntries(category_id) ==
    LET Match(e) == e.category_id = category_id
    IN  to_list(SelectSeq(cost_entries, Match), 1)

delete_cost_category(category_id) ==
    /\ IF ReferencingEntries(category_id) # <<>>
       THEN /\ response' = [route |-> "delete_cost_category", status |-> 400]
            /\ UNCHANGED cost_categories
       ELSE /\ cost_categories' = delete_one(cost_categories, category_id)
            /\ response' = [route |-> "delete_cost_category",
                            status |-> IF matched_count(cost_categories, category_id) = 0
                                       THEN 404 ELSE 200]
    /\ UNCHANGED <<phases, projects, cost_entries, obligations, issued, client, args, evm, tasks>>

\* POST /cost-entries bodies of these runs: paid at once, outstanding by
\* default, and an amount computed from hours x hourly_rate
StatusCostEntryBodies ==
    {[total_amount |-> Some(5), hours |-> None, hourly_rate |-> None,
      quantity |-> None, unit_price |-> None, status |-> "paid"],
     [total_amount |-> Some(10), hours |-> None, hourly_rate |-> None,
      quantity |-> None, unit_price |-> None],
     [total_amount |-> None, hours |-> Some(2), hourly_rate |-> Some(5),
      quantity |-> None, unit_price |-> None, status |-> "outstanding"]}

\* date.today() when an entry is posted
EntryDays == {1}

\* DELETE /cost-categories/{id}: an id never issued, the category the entries
\* use, and one no entry uses
DeleteCategoryIds == {0, 1, 2}

NextEntries ==
    \/ \E pid \in CreatableProjectIds, body \in ProjectBodies :
           create_project(pid, body)
    \/ \E cid \in RequestCategoryIds, body \in StatusCostEntryBodies,
          today \in EntryDays :
           create_cost_entry("P1", cid, body, None, today)
    \/ \E id \in 1..MaxCostEntries, status \in CostRequestStatuses :
           update_cost_entry_status(id, status)
    \/ \E id \in 1..MaxCostEntries : delete_cost_entry(id)
    \/ \E cid \in DeleteCategoryIds : delete_cost_category(cid)
    \/ \E pid \in RequestProjectIds, today \in SummaryDays :
           get_project_summary(pid, today)

SpecEntries == Init /\ [][NextEntries]_vars

-----------------------------------------------------------------------------
(* Phases, the dashboard, and the read-only routes side by side with writes *)

MaxPhases == 1            \* phases created in a run

\* POST /phases bodies: budget_allocation
PhaseBodies == {[budget_allocation |-> 10]}

create_phase(project_id, body) ==
    /\ issued.phases < MaxPhases
    /\ phases' = Append(phases, [id |-> issued.phases + 1,
                                 project_id |-> project_id,
                                 budget_allocation |-> body.budget_allocation,
                                 status |-> "not_started"])
    /\ issued' = [issued EXCEPT !.phases = @ + 1]
    /\ response' = [route |-> "create_phase", status |-> 200,
                    id |-> issued.phases + 1]
    /\ UNCHANGED <<projects, cost_categories, cost_entries, obligations, client,
                   args, evm, tasks>>

\* "[:10]" of recent_entries
RecentLimit == 10

\* the body of the dashboard response: the summary, the amounts per month (a
\* month is named by its first day) and the newest entries first
DashboardData(project, today) ==
    LET Mine(e) == e.project_id = project.id
        entries == to_list(SelectSeq(cost_entries, Mine), ToListLimit)
        MonthOf(e) == FirstOfMonth(e.entry_date, 0, 1)
        months == {MonthOf(entries[i]) : i \in 1..Len(entries)}
        MonthAmount(mo) ==
            LET InMonth(e) == MonthOf(e) = mo
                es == SelectSeq(entries, InMonth)
            IN  SumAmounts([i \in 1..Len(es) |-> es[i].total_amount], 1)
        n == IF Len(entries) < RecentLimit THEN Len(entries) ELSE RecentLimit
    IN  [summary |-> ProjectSummary(project, today),
         monthly_trend |-> {[month |-> mo, amount |-> MonthAmount(mo)] : mo \in months},
         recent_entries |-> [i \in 1..n |-> entries[Len(entries) - i + 1]]]

\* a variant of the route that writes the sorted entries back to the collection
get_dashboard_data_writing_back(project_id, today) ==
    /\ LET project == find_one(projects, project_id)
       IN  IF project = None
           THEN /\ response' = [route |-> "get_dashboard_data", status |-> 404]
                /\ UNCHANGED cost_entries
           ELSE IF ProjectSummary(project[1], today).evm_metrics.error # "none"
           THEN /\ response' = [route |-> "get_dashboard_data", status |-> 500]
                /\ UNCHANGED cost_entries
           ELSE /\ response' = [route |-> "get_dashboard_data", status |-> 200,
                                project_id |-> project_id,
                                body |-> DashboardData(project[1], today)]
                /\ cost_entries' = DashboardData(project[1], today).recent_entries
    /\ UNCHANGED <<projects, phases, cost_categories, obligations, issued, client,
                   args, evm, tasks>>

get_dashboard_data(project_id, today) ==
    /\ LET project == find_one(projects, project_id)
       IN  IF project = None
           THEN response' = [route |-> "get_dashboard_data", status |-> 404]
           ELSE \E data \in {DashboardData(project[1], today)} :
                    IF data.summary.evm_metrics.error # "none"
                    THEN response' = [route |-> "get_dashboard_data", status |-> 500]
                    ELSE response' = [route |-> "get_dashboard_data", status |-> 200,
                                      project_id |-> project_id,
                                      body |-> data]
    /\ UNCHANGED <<store, issued, client, args, evm, tasks>>

\* a direct call of the calculator is at hand in these runs: the arguments of
\* InitEVM for a project of the largest budget, no progress handed in, no
\* manual ETC
InitAnalytics ==
    /\ InitEVM
    /\ args.project = ProjectOf(10 * MaxBudgetTens, <<0, MaxDuration>>, <<10>>)
    /\ args.total_spent = 5
    /\ args.total_obligations = MaxObligationAmount
    /\ args.today = 1
    /\ args.project_progress = None
    /\ args.manual_etc = None
    /\ args.include_obligations

\* the POST /cost-entries and POST /obligations bodies of these runs
AnalyticsEntryBodies ==
    {[total_amount |-> Some(5), hours |-> None, hourly_rate |-> None,
      quantity |-> None, unit_price |-> None, status |-> "paid"]}
AnalyticsOffers == {[amount |-> 50, confidence_level |-> "high"]}

NextAnalytics ==
    \/ \E pid \in CreatableProjectIds, body \in ProjectBodies :
           create_project(pid, body)
    \/ \E pid \in CreatableProjectIds, body \in PhaseBodies :
           create_phase(pid, body)
    \/ \E cid \in RequestCategoryIds, body \in AnalyticsEntryBodies,
          today \in EntryDays :
           create_cost_entry("P1", cid, body, None, today)
    \/ \E pid \in CreatableProjectIds, cid \in RequestCategoryIds,
          offer \in AnalyticsOffers :
           create_obligation(pid, cid, offer)
    \/ \E pid \in RequestProjectIds, today \in EntryDays :
           get_project_summary(pid, today)
    \/ \E pid \in RequestProjectIds, today \in EntryDays :
           get_dashboard_data(pid, today)
    \/ \E pid \in RequestProjectIds, today \in EntryDays :
           get_evm_timeline(pid, today)
    \/ \E pid \in RequestProjectIds : get_project_obligations_summary(pid)
    \/ CallEnhanced
    \/ CallLegacy

SpecAnalytics == InitAnalytics /\ [][NextAnalytics]_vars

-----------------------------------------------------------------------------
(* Claims about the performance ratios, checked under SpecRatios *)

\* the stored project a timeline response was computed for
TimelineProject == find_one(projects, response.project_id)[1]

\* C7: a performance ratio whose denominator is zero is reported as exactly
\* 1.0: every result of calculate_enhanced_evm_metrics has CPI = 1.0 when the
\* actual cost is 0 and SPI = 1.0 when the planned value is 0, and every month
\* of the timeline has cpi = 1.0 when its actual cost is 0 and spi = 1.0 when
\* its planned value is 0.
C7_ZeroDenominatorRatioIsOne ==
    /\ Returned =>
           /\ out.actual_cost = Zero => out.cost_performance_index = One
           /\ out.planned_value = Zero => out.schedule_performance_index = One
    /\ Answered("get_evm_timeline") =>
           \A i \in 1..Len(response.body) :
               /\ MonthActual(TimelineProject, i - 1) = 0
                      => response.body[i].cpi = One
               /\ TimelinePlannedValue(TimelineProject, i - 1) = Zero
                      => response.body[i].spi = One

\* C7 witness: a timeline with a month without actual cost (cpi 1.0), a month
\* without planned value (spi 1.0) and a month whose cpi is a true quotient
C7_Witness ==
    /\ Answered("get_evm_timeline")
    /\ \E i \in 1..Len(response.body) :
           /\ MonthActual(TimelineProject, i - 1) = 0
           /\ response.body[i].cpi = One
    /\ \E i \in 1..Len(response.body) :
           /\ TimelinePlannedValue(TimelineProject, i - 1) = Zero
           /\ response.body[i].spi = One
    /\ \E i \in 1..Len(response.body) :
           /\ MonthActual(TimelineProject, i - 1) > 0
           /\ response.body[i].cpi # One

-----------------------------------------------------------------------------
(* Further claims about the calculator, checked under SpecEVM *)

\* C11: every result carries a set early_warnings that contains
\* COST_CONTROL_ALERT when CPI_adj < 0.90, FORMAL_CHANGE_REVIEW when
\* EAC_adj > 1.10 x BAC and STAKEHOLDER_NOTIFICATION when breach_severity is High.
C11_Original ==
    Returned =>
        /\ "early_warnings" \in DOMAIN out
        /\ Lt(out.cost_performance_index_adj, Frac(90, 100))
               => "COST_CONTROL_ALERT" \in out.early_warnings
        /\ Gt(out.estimate_at_completion_adj,
              Mul(Frac(110, 100), out.budget_at_completion))
               => "FORMAL_CHANGE_REVIEW" \in out.early_warnings
        /\ out.breach_severity = "High"
               => "STAKEHOLDER_NOTIFICATION" \in out.early_warnings

\* C14: every result is internally consistent: CV = EV - AC, SV = EV - PV,
\* VAC = BAC - EAC, ETC = EAC - AC, CV_adj = EV - (AC + total_obligations) and
\* EAC_adj = AC + total_obligations + ETC_adj, total_obligations being the
\* value the same result reports.
C14_ResultIsConsistent ==
    Returned =>
        /\ out.cost_variance = Sub(out.earned_value, out.actual_cost)
        /\ out.schedule_variance = Sub(out.earned_value, out.planned_value)
        /\ out.variance_at_completion
               = Sub(out.budget_at_completion, out.estimate_at_completion)
        /\ out.estimate_to_complete
               = Sub(out.estimate_at_completion, out.actual_cost)
        /\ out.cost_variance_adj
               = Sub(out.earned_value, Add(out.actual_cost, out.total_obligations))
        /\ out.estimate_at_completion_adj
               = Add(Add(out.actual_cost, out.total_obligations),
                     out.estimate_to_complete_adj)

\* C14 witness: a result with obligations counted, spend recorded and work remaining
C14_Witness ==
    /\ Returned
    /\ Gt(out.total_obligations, Zero)
    /\ Gt(out.actual_cost, Zero)
    /\ Gt(out.estimate_to_complete_adj, Zero)
    /\ out.cost_variance_adj # out.cost_variance
    /\ out.estimate_at_completion_adj # out.estimate_at_completion

\* C15: cost_status is Under Budget when CPI > 1.05, Over Budget when
\* CPI < 0.95 and On Budget otherwise (0.95 and 1.05 included); schedule_status
\* is Ahead, Behind or On Schedule by the same thresholds on SPI.
C15_StatusLabels ==
    Returned =>
        /\ out.cost_status =
               IF Gt(out.cost_performance_index, Frac(105, 100)) THEN "Under Budget"
               ELSE IF Lt(out.cost_performance_index, Frac(95, 100)) THEN "Over Budget"
               ELSE "On Budget"
        /\ out.schedule_status =
               IF Gt(out.schedule_performance_index, Frac(105, 100)) THEN "Ahead"
               ELSE IF Lt(out.schedule_performance_index, Frac(95, 100)) THEN "Behind"
               ELSE "On Schedule"

\* C15 witness: a CPI exactly on a threshold, reported On Budget
C15_Witness ==
    /\ Returned
    /\ out.cost_performance_index \in {Frac(95, 100), Frac(105, 100)}
    /\ out.cost_status = "On Budget"


\* C22: calculate_enhanced_evm_metrics returns a result, without a
\* division-by-zero error, for every input with budget > 0, actual cost >= 0
\* and obligations >= 0, in particular when earned value is 0 while actual
\* cost plus obligations is positive.
C22_Original ==
    (evm # NotCalled /\ args.project.total_budget > 0) => Returned

\* C25: when no progress is supplied, progress is elapsed days / duration
\* days clamped to [0, 1] if end_date > start_date and 0 otherwise, no error
\* being raised for a degenerate schedule, so that planned_value = BAC x
\* progress lies between 0 and BAC for every today, start_date and end_date.
\* The schedule raises no error: with a manual ETC handed in and a budget
\* > 0, where no later division can fail, the call returns for every
\* schedule.
C25_ProgressFromDates ==
    /\ (evm # NotCalled /\ args.project_progress = None
           /\ args.project.total_budget > 0 /\ InManualEtc # None) => Returned
    /\ (Returned /\ args.project_progress = None) =>
          LET p == args.project
              duration == p.end_date - p.start_date
              elapsed == args.today - p.start_date
              progress == IF duration > 0
                          THEN IF elapsed < 0 THEN Zero
                               ELSE IF elapsed > duration THEN One
                               ELSE Frac(elapsed, duration)
                          ELSE Zero
          IN  /\ out.planned_value = Mul(R(p.total_budget), progress)
              /\ Le(Zero, out.planned_value)
              /\ Le(out.planned_value, out.budget_at_completion)

\* a result for a project with a budget whose end date lies before its start
\* date: the planned value is 0
C25_Witness ==
    /\ Returned
    /\ args.project_progress = None
    /\ args.project.end_date < args.project.start_date
    /\ args.project.total_budget > 0
    /\ out.planned_value = Zero

-----------------------------------------------------------------------------
(* Claims about the timeline, checked under SpecTimeline *)

\* C12: in every timeline response the actual_cost does not decrease from one
\* month to the next, for every project and every set of cost entries
\* recorded for it (checked under SpecSigned).
C12_Original ==
    Answered("get_evm_timeline") =>
        \A i \in 1..(Len(response.body) - 1) :
            Le(response.body[i].actual_cost, response.body[i + 1].actual_cost)

-----------------------------------------------------------------------------
(* Further claims about the obligation routes *)

\* the confidence levels of the specification
ConfidenceLevels == {"high", "medium", "low"}

\* C16: an obligation whose confidence level is missing or is not one of
\* high, medium, low is rejected with InvalidConfidenceLevel when it is
\* created or weighted: it is not stored and takes part in no total
\* (checked under SpecUnweighted).
C16_Original ==
    /\ \A i \in 1..Len(obligations) :
           client[obligations[i].id].confidence_level \in ConfidenceLevels
    /\ Answered("get_project_obligations_summary") =>
           response.body.total_obligations = 0

\* C20: update_obligation_status answers 400 when the requested status is
\* not one of committed, cancelled, converted_to_actual, and 404 when the
\* status is valid but no obligation has the id; in both cases no stored
\* obligation is changed (checked under SpecStatusUpdates).
C20_RejectedStatusUpdateChangesNothing ==
    [][\A id \in 1..MaxObligations, status \in RequestStatuses :
           (response'.route = "update_obligation_status"
               /\ update_obligation_status(id, status)) =>
               /\ status \notin ValidObligationStatuses =>
                      response'.status = 400 /\ obligations' = obligations
               /\ (status \in ValidObligationStatuses
                      /\ find_one(obligations, id) = None) =>
                      response'.status = 404 /\ obligations' = obligations]_vars

\* a valid status was requested for an id that no stored obligation has,
\* while another obligation is stored
C20_Witness ==
    /\ response.route = "update_obligation_status"
    /\ response.status = 404
    /\ obligations # <<>>

-----------------------------------------------------------------------------
(* Claims about cost entries and cost categories, checked under SpecEntries *)

\* the stored project a summary response was computed for
SummaryProject == find_one(projects, response.project_id)[1]

\* C18: after any sequence of create_cost_entry, update_cost_entry_status
\* and delete_cost_entry, the project summary satisfies
\* total_outstanding + total_paid = total_spent,
\* budget_remaining_actual = total_budget - total_spent and
\* budget_remaining_committed = total_budget - total_paid.
C18_SummaryTotalsAgree ==
    Answered("get_project_summary") =>
        /\ response.body.total_outstanding + response.body.total_paid
               = response.body.total_spent
        /\ response.body.budget_remaining_actual
               = SummaryProject.total_budget - response.body.total_spent
        /\ response.body.budget_remaining_committed
               = SummaryProject.total_budget - response.body.total_paid

\* a summary of a project with an outstanding entry and an entry that was
\* created outstanding (amount 10) and has been set to paid
C18_Witness ==
    /\ Answered("get_project_summary")
    /\ response.body.total_outstanding > 0
    /\ response.body.total_paid > 0
    /\ \E i \in 1..Len(cost_entries) :
           /\ cost_entries[i].project_id = response.project_id
           /\ cost_entries[i].total_amount = 10
           /\ cost_entries[i].status = "paid"

\* C19: delete_cost_category on a category that at least one stored cost
\* entry references answers 400 and leaves the category and every cost entry
\* as they were; once no stored entry references the category, deleting it
\* succeeds.
C19_UsedCategoryIsKept ==
    [][\A cid \in DeleteCategoryIds :
           (response'.route = "delete_cost_category"
               /\ delete_cost_category(cid)) =>
               LET used == \E i \in 1..Len(cost_entries) :
                               cost_entries[i].category_id = cid
               IN  /\ used =>
                          /\ response'.status = 400
                          /\ cost_categories' = cost_categories
                          /\ cost_entries' = cost_entries
                   /\ (~used /\ find_one(cost_categories, cid) # None) =>
                          /\ response'.status = 200
                          /\ find_one(cost_categories', cid) = None
                          /\ cost_entries' = cost_entries]_vars

\* the deletion of a category was refused while a paid entry referencing it
\* is stored
C19_Witness ==
    /\ response.route = "delete_cost_category"
    /\ response.status = 400
    /\ \E i \in 1..Len(cost_entries) : cost_entries[i].status = "paid"
    /\ find_one(cost_categories, 1) # None

-----------------------------------------------------------------------------
(* Claims about the read-only routes, checked under SpecAnalytics *)

\* the routes that only read, by the name their responses carry
ReadRoutes ==
    {"get_project_summary", "get_dashboard_data", "get_evm_timeline",
     "get_project_obligations_summary"}

\* C17: get_project_summary, get_dashboard_data, get_evm_timeline,
\* get_project_obligations_summary and the two EVM calculators leave every
\* stored collection (projects, phases, cost categories, cost entries,
\* obligations) exactly as it was: every step that answers one of these
\* routes, or in which a calculator returns, changes none of them.
C17_ReadsLeaveStoreUnchanged ==
    [][(response'.route \in ReadRoutes \/ evm' # evm) =>
           /\ projects' = projects
           /\ phases' = phases
           /\ cost_categories' = cost_categories
           /\ cost_entries' = cost_entries
           /\ obligations' = obligations]_vars

\* the dashboard was answered and a calculator has returned while every
\* collection holds documents, two cost entries among them
C17_Witness ==
    /\ Answered("get_dashboard_data")
    /\ evm # NotCalled
    /\ projects # <<>> /\ phases # <<>> /\ cost_categories # <<>>
    /\ Len(cost_entries) = 2 /\ obligations # <<>>

-----------------------------------------------------------------------------
(* Claims about the forecast part of the timeline *)

\* the index of the latest historical (non-future) point of a timeline
\* response, 0 if there is none
LatestHistorical ==
    LET past == {i \in 1..Len(response.body) : ~response.body[i].is_future}
    IN  IF past = {} THEN 0 ELSE CHOOSE i \in past : \A j \in past : j <= i

\* C23: every timeline month after today is marked as forecast and its EAC
\* is total_budget divided by the CPI of the latest historical point, times
\* 1 + 0.02 x (number of months the point lies ahead of today); the CPI used
\* is the same for all forecast months (checked under SpecTimeline, where
\* that CPI is positive).
C23_Original ==
    (Answered("get_evm_timeline") /\ LatestHistorical # 0) =>
        LET cpi == response.body[LatestHistorical].cpi
            total_budget == R(TimelineProject.total_budget)
        IN  \A i \in 1..Len(response.body) :
                /\ response.body[i].is_future = (response.body[i].date > response.today)
                /\ (response.body[i].is_future /\ Gt(cpi, Zero)) =>
                       response.body[i].eac =
                           Round(Mul(Div(total_budget, cpi),
                                     Add(One,
                                         Mul(R(MonthsAhead(response.body[i].date,
                                                           response.today)),
                                             Frac(2, 100)))), 100)

\* date.today() of the runs of an ongoing project: the 25-month project is
\* in its fourth month
ForecastTodays == {100}

NextForecast ==
    \/ \E pid \in CreatableProjectIds, body \in TimelineProjectBodies :
           create_project(pid, body)
    \/ \E cid \in RequestCategoryIds, amounts \in CostEntryAmounts,
          entry_date \in CostEntryDates, today \in ForecastTodays :
           create_cost_entry("P1", cid, amounts, entry_date, today)
    \/ \E pid \in RequestProjectIds, today \in ForecastTodays :
           get_evm_timeline(pid, today)

SpecForecast == Init /\ [][NextForecast]_vars

\* C24: cost_trend_deterioration is derived from the last three historical
\* (non-forecast) points of the timeline: it is reported, with trend
\* 'deteriorating', exactly when the CPI of the latest historical point is
\* more than 0.05 below the CPI of the earliest of those three, also when the
\* timeline of an ongoing project ends with forecast and lookahead months.
C24_Original ==
    Answered("get_evm_timeline") =>
        LET current_data == CurrentData(response.body)
            n == Len(current_data)
        IN  n >= 3 =>
               /\ (response.cost_trend_deterioration # None)
                      = Lt(Sub(current_data[n].cpi, current_data[n - 2].cpi),
                           Frac(0 - 5, 100))
               /\ response.cost_trend_deterioration # None =>
                      response.cost_trend_deterioration[1].trend = "deteriorating"

\* C28 as stated: in a timeline of a project with total_budget > 0 every
\* point with positive cumulative actual cost has earned_value <= 0.90 x
\* actual_cost and cpi <= 0.90, and every such point with positive earned
\* value has EAC > 1.05 x total_budget and an overrun_point is reported.
C28_Original ==
    (Answered("get_evm_timeline") /\ TimelineProject.total_budget > 0) =>
        \A i \in 1..Len(response.body) :
            LET point == response.body[i]
            IN  Gt(point.actual_cost, Zero) =>
                   /\ Le(point.earned_value, Mul(Frac(9, 10), point.actual_cost))
                   /\ Le(point.cpi, Frac(9, 10))
                   /\ Gt(point.earned_value, Zero) =>
                          /\ Gt(point.eac, Mul(Frac(105, 100),
                                               R(TimelineProject.total_budget)))
                          /\ response.overrun_point # None

\* C28: in a timeline of a project with total_budget > 0 every point with
\* positive cumulative actual cost has earned_value <= 0.90 x actual_cost and
\* cpi <= 0.90; every such historical (non-forecast) point with positive
\* earned value has EAC > 1.05 x total_budget, and then an overrun_point is
\* reported.
C28_SpendCapsCpi ==
    (Answered("get_evm_timeline") /\ TimelineProject.total_budget > 0) =>
        \A i \in 1..Len(response.body) :
            LET point == response.body[i]
            IN  Gt(point.actual_cost, Zero) =>
                   /\ Le(point.earned_value, Mul(Frac(9, 10), point.actual_cost))
                   /\ Le(point.cpi, Frac(9, 10))
                   /\ (Gt(point.earned_value, Zero) /\ ~point.is_future) =>
                          /\ Gt(point.eac, Mul(Frac(105, 100),
                                               R(TimelineProject.total_budget)))
                          /\ response.overrun_point # None

C28_Witness ==
    /\ Answered("get_evm_timeline") /\ TimelineProject.total_budget > 0
    /\ response.overrun_point # None
    /\ \E i \in 1..Len(response.body) :
           /\ ~response.body[i].is_future
           /\ Gt(response.body[i].actual_cost, Zero)
           /\ Gt(response.body[i].earned_value, Zero)
           /\ response.body[i].cpi = Frac(9, 10)

-----------------------------------------------------------------------------
(* The summary against the timeline *)

\* the evm_metrics that get_project_summary computes from the store the
\* timeline response was computed from, on the same day
SummaryMetrics == ProjectSummary(TimelineProject, response.today).evm_metrics

\* C21: for any project the summary and the timeline agree within 0.5: the
\* cost_performance_index of the summary's evm_metrics and the timeline's
\* current_performance.current_cpi differ by at most 0.5, and so do the
\* schedule_performance_index and current_spi.
C21_Original ==
    (Answered("get_evm_timeline") /\ SummaryMetrics.error = "none") =>
        LET Apart(x, y) == IF Lt(x, y) THEN Sub(y, x) ELSE Sub(x, y)
        IN  /\ Le(Apart(SummaryMetrics.cost_performance_index,
                       response.current_performance.current_cpi), Frac(1, 2))
            /\ Le(Apart(SummaryMetrics.schedule_performance_index,
                       response.current_performance.current_spi), Frac(1, 2))

-----------------------------------------------------------------------------
(* Deleting a project *)

\* collection.delete_many({"project_id": project_id})
delete_many(coll, project_id) ==
    LET Kept(doc) == doc.project_id # project_id
    IN  SelectSeq(coll, Kept)

\* DELETE /projects/{project_id}: the cost entries and the phases of the id
\* are deleted first, then the project; 404 when no project was deleted
delete_project(project_id) ==
    /\ cost_entries' = delete_many(cost_entries, project_id)
    /\ phases' = delete_many(phases, project_id)
    /\ projects' = delete_one(projects, project_id)
    /\ response' = [route |-> "delete_project",
                    status |-> IF matched_count(projects, project_id) = 0
                               THEN 404 ELSE 200,
                    project_id |-> project_id]
    /\ UNCHANGED <<cost_categories, obligations, issued, client, args, evm, tasks>>

\* the project ids of the requests: two projects can be created, and phases,
\* cost entries and obligations name either of them, created or not
DeletionProjectIds == {"P1", "P2"}

NextDeletion ==
    \/ \E pid \in DeletionProjectIds, body \in ProjectBodies :
           create_project(pid, body)
    \/ \E pid \in DeletionProjectIds, body \in PhaseBodies :
           create_phase(pid, body)
    \/ \E pid \in DeletionProjectIds, body \in AnalyticsEntryBodies,
          today \in EntryDays :
           create_cost_entry(pid, 1, body, None, today)
    \/ \E pid \in DeletionProjectIds, offer \in AnalyticsOffers :
           create_obligation(pid, 1, offer)
    \/ \E pid \in DeletionProjectIds : delete_project(pid)

SpecDeletion == Init /\ [][NextDeletion]_vars

\* the documents of a collection that belong to other projects
OfOthers(coll, project_id) ==
    LET Other(doc) == doc.project_id # project_id
    IN  SelectSeq(coll, Other)

\* C26: after delete_project succeeds for project P, no phase, cost entry or
\* obligation whose project_id is P remains in the store, and the data of
\* every other project is unchanged.
C26_Original ==
    [][(response'.route = "delete_project" /\ response'.status = 200) =>
          LET P == response'.project_id
          IN  /\ OfOthers(phases', P) = phases'
              /\ OfOthers(cost_entries', P) = cost_entries'
              /\ OfOthers(obligations', P) = obligations'
              /\ OfOthers(phases', P) = OfOthers(phases, P)
              /\ OfOthers(cost_entries', P) = OfOthers(cost_entries, P)
              /\ OfOthers(obligations', P) = OfOthers(obligations, P)
              /\ \A i \in 1..Len(projects) :
                     projects[i].id # P =>
                         \E j \in 1..Len(projects') : projects'[j] = projects[i]
              /\ cost_categories' = cost_categories]_vars

\* C27: delete_project with an id that matches no stored project returns 404
\* and leaves all collections unchanged, also when cost entries or phases
\* were created with that project_id.
C27_Original ==
    [][(response'.route = "delete_project"
           /\ find_one(projects, response'.project_id) = None) =>
          /\ response'.status = 404
          /\ UNCHANGED store]_vars

-----------------------------------------------------------------------------
(* Handlers running concurrently: every awaited database call is one step,
   and the steps of the requests in flight interleave in any order *)

MaxTasks == 2             \* requests handled step by step in a run

\* every request has been answered
AllDone == \A t \in 1..Len(tasks) : tasks[t].pc = "done"

\* DELETE /cost-categories/{id}, first step: the query for entries that use
\* the category; the request is refused at once when there is one
delete_cost_category_find(category_id) ==
    /\ Len(tasks) < MaxTasks
    /\ LET used == ReferencingEntries(category_id) # <<>>
       IN  /\ tasks' = Append(tasks, [handler |-> "delete_cost_category",
                                      category_id |-> category_id,
                                      entry_dict |-> None,
                                      pc |-> IF used THEN "done" ELSE "delete_one",
                                      status |-> IF used THEN 400 ELSE 0])
           /\ response' = IF used
                          THEN [route |-> "delete_cost_category", status |-> 400]
                          ELSE response
    /\ UNCHANGED <<store, issued, client, args, evm>>

\* DELETE /cost-categories/{id}, second step: delete_one and the answer
delete_cost_category_delete_one(t) ==
    /\ t \in DOMAIN tasks
    /\ tasks[t].handler = "delete_cost_category" /\ tasks[t].pc = "delete_one"
    /\ LET status == IF matched_count(cost_categories, tasks[t].category_id) = 0
                     THEN 404 ELSE 200
       IN  /\ cost_categories' = delete_one(cost_categories, tasks[t].category_id)
           /\ tasks' = [tasks EXCEPT ![t].pc = "done", ![t].status = status]
           /\ response' = [route |-> "delete_cost_category", status |-> status]
    /\ UNCHANGED <<phases, projects, cost_entries, obligations, issued, client,
                   args, evm>>

\* POST /cost-entries, first step: find_one of the category, and the fields
\* of entry_dict computed before the insert is awaited
create_cost_entry_find_one(project_id, category_id, amounts, today) ==
    /\ Len(tasks) < MaxTasks
    /\ LET category == find_one(cost_categories, category_id)
           total_amount ==
               IF Truthy(amounts.total_amount) THEN amounts.total_amount
               ELSE IF Truthy(amounts.hours) /\ Truthy(amounts.hourly_rate)
               THEN Some(amounts.hours[1] * amounts.hourly_rate[1])
               ELSE IF Truthy(amounts.quantity) /\ Truthy(amounts.unit_price)
               THEN Some(amounts.quantity[1] * amounts.unit_price[1])
               ELSE None
           status == IF category = None THEN 404
                     ELSE IF total_amount = None THEN 400 ELSE 0
       IN  /\ tasks' =
                  Append(tasks,
                         [handler |-> "create_cost_entry",
                          category_id |-> category_id,
                          entry_dict |->
                              IF status # 0 THEN None
                              ELSE Some([project_id |-> project_id,
                                         phase_id |-> None,
                                         category_id |-> category_id,
                                         category_name |-> category[1].name,
                                         total_amount |-> total_amount[1],
                                         status |-> IF "status" \in DOMAIN amounts
                                                    THEN amounts.status
                                                    ELSE "outstanding",
                                         entry_date |-> today]),
                          pc |-> IF status # 0 THEN "done" ELSE "insert_one",
                          status |-> status])
           /\ response' = IF status # 0
                          THEN [route |-> "create_cost_entry", status |-> status]
                          ELSE response
    /\ UNCHANGED <<store, issued, client, args, evm>>

\* POST /cost-entries, second step: the id is issued and the entry inserted
create_cost_entry_insert_one(t) ==
    /\ t \in DOMAIN tasks
    /\ tasks[t].handler = "create_cost_entry" /\ tasks[t].pc = "insert_one"
    /\ LET id == issued.cost_entries + 1
           entry_dict == tasks[t].entry_dict[1]
       IN  /\ cost_entries' =
                  Append(cost_entries,
                         [id |-> id,
                          project_id |-> entry_dict.project_id,
                          phase_id |-> entry_dict.phase_id,
                          category_id |-> entry_dict.category_id,
                          category_name |-> entry_dict.category_name,
                          total_amount |-> entry_dict.total_amount,
                          status |-> entry_dict.status,
                          entry_date |-> entry_dict.entry_date])
           /\ issued' = [issued EXCEPT !.cost_entries = id]
           /\ response' = [route |-> "create_cost_entry", status |-> 200, id |-> id]
    /\ tasks' = [tasks EXCEPT ![t].pc = "done", ![t].status = 200]
    /\ UNCHANGED <<phases, projects, cost_categories, obligations, client, args, evm>>

\* a project is created first (its handler is not interleaved here), so that
\* the default categories exist; then deletions and creations interleave
NextRace ==
    \/ \E pid \in CreatableProjectIds, body \in ProjectBodies :
           create_project(pid, body)
    \/ \E cid \in RequestCategoryIds : delete_cost_category_find(cid)
    \/ \E t \in 1..MaxTasks : delete_cost_category_delete_one(t)
    \/ \E cid \in RequestCategoryIds, body \in StatusCostEntryBodies,
          today \in EntryDays :
           create_cost_entry_find_one("P1", cid, body, today)
    \/ \E t \in 1..MaxTasks : create_cost_entry_insert_one(t)

SpecRace == Init /\ [][NextRace]_vars

\* C29: when delete_cost_category and create_cost_entry for the same category
\* run with their database steps interleaved in any order, the store never
\* ends with a cost entry whose category_id names a category that no longer
\* exists: the deletion is refused with 400 or the creation fails with 404.
C29_Original ==
    AllDone =>
        /\ \A i \in 1..Len(cost_entries) :
               find_one(cost_categories, cost_entries[i].category_id) # None
        /\ \A d, c \in 1..Len(tasks) :
               (/\ tasks[d].handler = "delete_cost_category"
                /\ tasks[c].handler = "create_cost_entry"
                /\ tasks[d].category_id = tasks[c].category_id) =>
                   tasks[d].status \in {400, 404} \/ tasks[c].status \in {400, 404}

-----------------------------------------------------------------------------
(* initialize_default_categories step by step, called directly or by
   create_project; a task holds the index of the default category its loop
   has reached *)

\* the task after one round of the loop over default_categories
NextDefault(task) ==
    IF task.index < Len(DefaultCategories)
    THEN [task EXCEPT !.index = @ + 1, !.pc = "find_one"]
    ELSE [task EXCEPT !.index = @ + 1, !.pc = "done", !.status = 200]

\* the response a finished task sends
TaskResponse(task) ==
    IF task.handler = "create_project"
    THEN [route |-> "create_project", status |-> 200, project_id |-> task.project_id]
    ELSE [route |-> "initialize_default_categories", status |-> 200]

\* POST /initialize-default-categories is accepted
initialize_default_categories_call ==
    /\ Len(tasks) < MaxTasks
    /\ tasks' = Append(tasks, [handler |-> "initialize_default_categories",
                               project_id |-> "none",
                               index |-> 1, pc |-> "find_one", status |-> 0])
    /\ UNCHANGED <<store, issued, client, response, args, evm>>

\* POST /projects, first step: the project is inserted
create_project_insert_one(pid, body) ==
    /\ Len(tasks) < MaxTasks
    /\ pid \notin issued.projects
    /\ projects' = Append(projects, [id |-> pid,
                                     total_budget |-> body.total_budget,
                                     start_date |-> body.start_date,
                                     end_date |-> body.end_date,
                                     cost_estimates |-> body.cost_estimates])
    /\ issued' = [issued EXCEPT !.projects = @ \cup {pid}]
    /\ tasks' = Append(tasks, [handler |-> "create_project",
                               project_id |-> pid,
                               index |-> 1, pc |-> "count_documents", status |-> 0])
    /\ UNCHANGED <<phases, cost_categories, cost_entries, obligations, client,
                   response, args, evm>>

\* POST /projects, second step: count_documents({}); the defaults are
\* initialized when it is 0
create_project_count_documents(t) ==
    /\ t \in DOMAIN tasks
    /\ tasks[t].pc = "count_documents"
    /\ LET task == IF Len(cost_categories) = 0
                   THEN [tasks[t] EXCEPT !.pc = "find_one"]
                   ELSE [tasks[t] EXCEPT !.pc = "done", !.status = 200]
       IN  /\ tasks' = [tasks EXCEPT ![t] = task]
           /\ response' = IF task.pc = "done" THEN TaskResponse(task) ELSE response
    /\ UNCHANGED <<store, issued, client, args, evm>>

\* the loop's find_one({"name": ...}): a stored name is skipped
default_category_find_one(t) ==
    /\ t \in DOMAIN tasks
    /\ tasks[t].pc = "find_one"
    /\ LET existing == \E i \in 1..Len(cost_categories) :
                           cost_categories[i].name = DefaultCategories[tasks[t].index]
           task == IF existing THEN NextDefault(tasks[t])
                   ELSE [tasks[t] EXCEPT !.pc = "insert_one"]
       IN  /\ tasks' = [tasks EXCEPT ![t] = task]
           /\ response' = IF task.pc = "done" THEN TaskResponse(task) ELSE response
    /\ UNCHANGED <<store, issued, client, args, evm>>

\* the loop's insert_one of a default category that was not found
default_category_insert_one(t) ==
    /\ t \in DOMAIN tasks
    /\ tasks[t].pc = "insert_one"
    /\ tasks[t].handler \in {"create_project", "initialize_default_categories"}
    /\ cost_categories' = Append(cost_categories,
                                 [id |-> issued.cost_categories + 1,
                                  name |-> DefaultCategories[tasks[t].index]])
    /\ issued' = [issued EXCEPT !.cost_categories = @ + 1]
    /\ LET task == NextDefault(tasks[t])
       IN  /\ tasks' = [tasks EXCEPT ![t] = task]
           /\ response' = IF task.pc = "done" THEN TaskResponse(task) ELSE response
    /\ UNCHANGED <<projects, phases, cost_entries, obligations, client, args, evm>>

\* POST /cost-categories names of the user's own categories
UserCategoryNames == {"Custom"}

\* POST /cost-categories: one insert_one (each name is posted once in a run)
create_cost_category(name) ==
    /\ \A i \in 1..Len(cost_categories) : cost_categories[i].name # name
    /\ cost_categories' = Append(cost_categories,
                                 [id |-> issued.cost_categories + 1, name |-> name])
    /\ issued' = [issued EXCEPT !.cost_categories = @ + 1]
    /\ response' = [route |-> "create_cost_category", status |-> 200,
                    id |-> issued.cost_categories + 1]
    /\ UNCHANGED <<projects, phases, cost_entries, obligations, client, args, evm,
                   tasks>>

NextDefaults ==
    \/ initialize_default_categories_call
    \/ \E pid \in DeletionProjectIds, body \in ProjectBodies :
           create_project_insert_one(pid, body)
    \/ \E t \in 1..MaxTasks : create_project_count_documents(t)
    \/ \E t \in 1..MaxTasks : default_category_find_one(t)
    \/ \E t \in 1..MaxTasks : default_category_insert_one(t)
    \/ \E name \in UserCategoryNames : create_cost_category(name)

SpecDefaults == Init /\ [][NextDefaults]_vars

\* some request has run the loop of initialize_default_categories to its end
Initialized ==
    \E t \in 1..Len(tasks) :
        tasks[t].pc = "done" /\ tasks[t].index > Len(DefaultCategories)

\* the categories the user created
UserCategories(categories) ==
    LET Own(c) == \A i \in 1..Len(DefaultCategories) : c.name # DefaultCategories[i]
    IN  SelectSeq(categories, Own)

\* C30: initialize_default_categories is idempotent: after any number of
\* calls, one after the other or interleaved, and the call create_project
\* makes when no category exists included, the store holds exactly one
\* category for each of the six default names, and no step of it changes the
\* categories the user created.
C30_Original ==
    [][/\ (AllDone' /\ Initialized') =>
              \A n \in 1..Len(DefaultCategories) :
                  Cardinality({i \in 1..Len(cost_categories') :
                                 cost_categories'[i].name = DefaultCategories[n]}) = 1
       /\ tasks' # tasks =>
              UserCategories(cost_categories') = UserCategories(cost_categories)]_vars


=============================================================================
